---- MODULE Spec2Model ----
(***************************************************************************)
(* Model of src/timebase.py: the Timebase shared clock.                    *)
(*                                                                         *)
(* Times are integers counted in ticks of 1/30 s (the default clamp_dt),   *)
(* rates are integers, so old + eff_rate * dt is exact.  The tolerance     *)
(* eps = 1e-9 of _wrap_with_bounce is far below one tick, so on this grid  *)
(* abs(x) < eps holds exactly when x = 0.  float("inf") is the value Inf,  *)
(* larger than every time the model reaches.  Cue callbacks are opaque     *)
(* functions of the caller; the model records each invocation.             *)
(***************************************************************************)
EXTENDS Integers, Sequences, FiniteSets, TLC

VARIABLES time, prev_time, rate, running, wrap_mode, window, clamp_dt,
          dir_sign, instant_cues, range_cues, range_state,
          last, open, scenario

prog == <<time, prev_time, rate, running, wrap_mode, window, clamp_dt,
          dir_sign, instant_cues, range_cues, range_state>>
vars == <<time, prev_time, rate, running, wrap_mode, window, clamp_dt,
          dir_sign, instant_cues, range_cues, range_state,
          last, open, scenario>>

(* ---------------- bounds of the exploration ---------------- *)
MaxTime == 5
MaxCues == 2

(* ---------------- program constants ---------------- *)
Inf == 1000000
TicksPerSecond == 30
DefaultClampDt == 1

WrapModes == {"clamp", "loop", "pingpong"}

TimeWindow(a, b) == [t_min |-> a, t_max |-> b]

(* ---------------- helpers ---------------- *)
Abs(x) == IF x < 0 THEN -x ELSE x
pymax(x, y) == IF y > x THEN y ELSE x
pymin(x, y) == IF y < x THEN y ELSE x
WithinEps(x) == Abs(x) < 1

(* the segment test without the ordering of its endpoints *)
betweenForwardOnly(x, u, v) == u <= x /\ x <= v

between(x, u, v) ==
    LET lo == IF u <= v THEN u ELSE v
        hi == IF u <= v THEN v ELSE u
    IN  lo <= x /\ x <= hi

finite(w) == (w.t_min < w.t_max) /\ (w.t_max # Inf)

(* _wrap whose clamp forgets the lower bound *)
WrapClampUpperOnly(t, mode, w) ==
    LET a == w.t_min
        b == w.t_max
        length == b - a
    IN  IF mode = "clamp" \/ ~finite(w) THEN pymin(t, b)
        ELSE IF length = 0 THEN a
        ELSE IF mode = "loop" THEN a + ((t - a) % length)
        ELSE IF mode = "pingpong" THEN
             LET m == (t - a) % (2 * length)
             IN  a + (IF m <= length THEN m ELSE 2 * length - m)
        ELSE t

(* _wrap whose ping-pong fold restarts at t_min instead of reflecting *)
WrapPingPongSawtooth(t, mode, w) ==
    LET a == w.t_min
        b == w.t_max
        length == b - a
    IN  IF mode = "clamp" \/ ~finite(w) THEN pymax(a, pymin(t, b))
        ELSE IF length = 0 THEN a
        ELSE IF mode = "loop" THEN a + ((t - a) % length)
        ELSE IF mode = "pingpong" THEN
             LET m == (t - a) % (2 * length)
             IN  a + (IF m <= length THEN m ELSE m - length)
        ELSE t

(* Timebase._wrap, with the fields it reads as parameters *)
Wrap(t, mode, w) ==
    LET a == w.t_min
        b == w.t_max
        length == b - a
    IN  IF mode = "clamp" \/ ~finite(w) THEN pymax(a, pymin(t, b))
        ELSE IF length = 0 THEN a
        ELSE IF mode = "loop" THEN a + ((t - a) % length)
        ELSE IF mode = "pingpong" THEN
             LET m == (t - a) % (2 * length)
             IN  a + (IF m <= length THEN m ELSE 2 * length - m)
        ELSE t

(* _wrap_with_bounce without the exact-landing test: only a sign crossing
   counts as a bounce *)
WrapWithBounceNoLanding(t_before, t_after, mode, w) ==
    LET a == w.t_min
        b == w.t_max
    IN  IF mode = "clamp" \/ ~finite(w)
        THEN <<pymax(a, pymin(t_after, b)), FALSE>>
        ELSE IF mode = "loop" THEN <<Wrap(t_after, mode, w), FALSE>>
        ELSE LET wrapped == Wrap(t_after, mode, w)
                 hit_left == (t_before - a) * (t_after - a) < 0
                 hit_right == (t_before - b) * (t_after - b) < 0
             IN  <<wrapped, hit_left \/ hit_right>>

(* Timebase._wrap_with_bounce: <<wrapped time, bounced>> *)
WrapWithBounce(t_before, t_after, mode, w) ==
    LET a == w.t_min
        b == w.t_max
    IN  IF mode = "clamp" \/ ~finite(w)
        THEN <<pymax(a, pymin(t_after, b)), FALSE>>
        ELSE IF mode = "loop" THEN <<Wrap(t_after, mode, w), FALSE>>
        ELSE LET wrapped == Wrap(t_after, mode, w)
                 hit_left == (t_before - a) * (t_after - a) < 0
                             \/ WithinEps(wrapped - a)
                 hit_right == (t_before - b) * (t_after - b) < 0
                              \/ WithinEps(wrapped - b)
             IN  <<wrapped, hit_left \/ hit_right>>

(* the instant-cue loop of _fire_cues: the invocations fn(tc), in order *)
RECURSIVE InstantLoop(_, _, _, _)
InstantLoop(i, cues, t_prev, t_now) ==
    IF i > Len(cues) THEN <<>>
    ELSE (IF between(cues[i], t_prev, t_now)
          THEN <<[kind |-> "instant", idx |-> i, arg |-> cues[i]]>>
          ELSE <<>>)
         \o InstantLoop(i + 1, cues, t_prev, t_now)

(* dict.get(key, False) and dict[key] = v of _range_state *)
StateGet(rs, key) == IF key \in DOMAIN rs THEN rs[key] ELSE FALSE

(* dict[key] = v written by the (t0, t1) value of the key, not by its index *)
StateSetByValue(rs, key, v) ==
    [k \in (DOMAIN rs) \cup {key} |->
        IF k[1] = key[1] /\ k[2] = key[2] THEN v ELSE rs[k]]
StateSet(rs, key, v) ==
    [k \in (DOMAIN rs) \cup {key} |-> IF k = key THEN v ELSE rs[k]]

(* the range-cue loop with the flag left unset after on_enter *)
RECURSIVE RangeLoopForgetsEnter(_, _, _, _)
RangeLoopForgetsEnter(i, cues, rs, t_now) ==
    IF i > Len(cues) THEN [calls |-> <<>>, state |-> rs]
    ELSE LET t0 == cues[i][1]
             t1 == cues[i][2]
             key == <<t0, t1, i - 1>>
             inside_now == between(t_now, t0, t1)
             was_inside == StateGet(rs, key)
         IN  IF inside_now /\ ~was_inside
             THEN LET r == RangeLoopForgetsEnter(i + 1, cues, rs, t_now)
                  IN  [calls |-> <<[kind |-> "enter", idx |-> i, arg |-> t_now]>>
                                 \o r.calls,
                       state |-> r.state]
             ELSE IF ~inside_now /\ was_inside
             THEN LET r == RangeLoopForgetsEnter(i + 1, cues,
                                                 StateSet(rs, key, FALSE), t_now)
                  IN  [calls |-> <<[kind |-> "exit", idx |-> i, arg |-> t_now]>>
                                 \o r.calls,
                       state |-> r.state]
             ELSE RangeLoopForgetsEnter(i + 1, cues, rs, t_now)

(* the range-cue loop of _fire_cues: [calls, state] after entries i.. *)
RECURSIVE RangeLoop(_, _, _, _)
RangeLoop(i, cues, rs, t_now) ==
    IF i > Len(cues) THEN [calls |-> <<>>, state |-> rs]
    ELSE LET t0 == cues[i][1]
             t1 == cues[i][2]
             key == <<t0, t1, i - 1>>
             inside_now == between(t_now, t0, t1)
             was_inside == StateGet(rs, key)
         IN  IF inside_now /\ ~was_inside
             THEN LET r == RangeLoop(i + 1, cues, StateSet(rs, key, TRUE), t_now)
                  IN  [calls |-> <<[kind |-> "enter", idx |-> i, arg |-> t_now]>>
                                 \o r.calls,
                       state |-> r.state]
             ELSE IF ~inside_now /\ was_inside
             THEN LET r == RangeLoop(i + 1, cues, StateSet(rs, key, FALSE), t_now)
                  IN  [calls |-> <<[kind |-> "exit", idx |-> i, arg |-> t_now]>>
                                 \o r.calls,
                       state |-> r.state]
             ELSE RangeLoop(i + 1, cues, rs, t_now)

(* _fire_cues without the prev != now test before the instant cues *)
FireCuesAlways(t_prev, t_now, icues, rcues, rs) ==
    LET rng == RangeLoop(1, rcues, rs, t_now)
    IN  [calls |-> InstantLoop(1, icues, t_prev, t_now) \o rng.calls,
         state |-> rng.state]

(* _fire_cues that looks at the range cues only when the clock moved *)
FireCuesOnlyOnMotion(t_prev, t_now, icues, rcues, rs) ==
    IF t_prev # t_now
    THEN LET rng == RangeLoop(1, rcues, rs, t_now)
         IN  [calls |-> InstantLoop(1, icues, t_prev, t_now) \o rng.calls,
              state |-> rng.state]
    ELSE [calls |-> <<>>, state |-> rs]

(* Timebase._fire_cues: the callbacks invoked and the new _range_state *)
FireCues(t_prev, t_now, icues, rcues, rs) ==
    LET inst == IF t_prev # t_now THEN InstantLoop(1, icues, t_prev, t_now)
                ELSE <<>>
        rng == RangeLoop(1, rcues, rs, t_now)
    IN  [calls |-> inst \o rng.calls, state |-> rng.state]

(* ---------------- the recorded callback invocations ---------------- *)
NumCalls(calls, kind, i) ==
    Cardinality({j \in 1..Len(calls) : calls[j].kind = kind /\ calls[j].idx = i})

Clip(n) == IF n > 2 THEN 2 ELSE IF n < -1 THEN -1 ELSE n

OpenAfter(op, calls) ==
    [i \in 1..Len(op) |->
        Clip(op[i] + NumCalls(calls, "enter", i) - NumCalls(calls, "exit", i))]

(* progress along the documented demo: stage 0 after the demo construction,
   1 after on(1.0, cue), 1 + k after k calls advance(0.5) with nothing else
   in between; fired counts the cue's invocations in those calls *)
ScenarioOff == [stage |-> -1, fired |-> 0]

Record(name, old, proposed, calls) ==
    [op |-> name, old |-> old, proposed |-> proposed, calls |-> calls,
     raised |-> FALSE]

(* ---------------- construction ---------------- *)
Construct(t0, r, wrap, w, cdt) ==
    /\ time = t0
    /\ prev_time = t0
    /\ rate = r
    /\ running = TRUE
    /\ wrap_mode = wrap
    /\ window = w
    /\ clamp_dt = cdt
    /\ dir_sign = 1
    /\ instant_cues = <<>>
    /\ range_cues = <<>>
    /\ range_state = <<>>
    /\ last = Record("init", t0, t0, <<>>)
    /\ open = <<>>

(* ---------------- operations ---------------- *)
Ghosts(name, old, proposed, calls) ==
    /\ last' = Record(name, old, proposed, calls)
    /\ open' = OpenAfter(open, calls)

Play ==
    /\ running' = TRUE
    /\ UNCHANGED <<time, prev_time, rate, wrap_mode, window, clamp_dt,
                   dir_sign, instant_cues, range_cues, range_state>>
    /\ Ghosts("play", time, time, <<>>)
    /\ scenario' = ScenarioOff

Pause ==
    /\ running' = FALSE
    /\ UNCHANGED <<time, prev_time, rate, wrap_mode, window, clamp_dt,
                   dir_sign, instant_cues, range_cues, range_state>>
    /\ Ghosts("pause", time, time, <<>>)
    /\ scenario' = ScenarioOff

Toggle ==
    /\ running' = (IF running THEN FALSE ELSE TRUE)
    /\ UNCHANGED <<time, prev_time, rate, wrap_mode, window, clamp_dt,
                   dir_sign, instant_cues, range_cues, range_state>>
    /\ Ghosts("toggle", time, time, <<>>)
    /\ scenario' = ScenarioOff

SetRate(r) ==
    /\ rate' = r
    /\ UNCHANGED <<time, prev_time, running, wrap_mode, window, clamp_dt,
                   dir_sign, instant_cues, range_cues, range_state>>
    /\ Ghosts("set_rate", time, time, <<>>)
    /\ scenario' = ScenarioOff

Speed(s) ==
    /\ rate' = s
    /\ UNCHANGED <<time, prev_time, running, wrap_mode, window, clamp_dt,
                   dir_sign, instant_cues, range_cues, range_state>>
    /\ Ghosts("speed", time, time, <<>>)
    /\ scenario' = ScenarioOff

(* reverse() that flips the sign of the rate instead of forcing it negative *)
ReverseNegates ==
    /\ rate' = -rate
    /\ UNCHANGED <<time, prev_time, running, wrap_mode, window, clamp_dt,
                   dir_sign, instant_cues, range_cues, range_state>>
    /\ Ghosts("reverse", time, time, <<>>)
    /\ scenario' = ScenarioOff

Reverse ==
    /\ rate' = -Abs(rate)
    /\ UNCHANGED <<time, prev_time, running, wrap_mode, window, clamp_dt,
                   dir_sign, instant_cues, range_cues, range_state>>
    /\ Ghosts("reverse", time, time, <<>>)
    /\ scenario' = ScenarioOff

Forward ==
    /\ rate' = Abs(rate)
    /\ UNCHANGED <<time, prev_time, running, wrap_mode, window, clamp_dt,
                   dir_sign, instant_cues, range_cues, range_state>>
    /\ Ghosts("forward", time, time, <<>>)
    /\ scenario' = ScenarioOff

(* seek that keeps the old time as prev_time, as _step does *)
SeekToKeepsPrev(t, m, w) ==
    /\ time' = Wrap(t, m, w)
    /\ prev_time' = time

(* seek(t) under wrap mode m and window w (the fields as seek reads them) *)
SeekTo(t, m, w) ==
    /\ time' = Wrap(t, m, w)
    /\ prev_time' = time'

Seek(t) ==
    /\ SeekTo(t, wrap_mode, window)
    /\ UNCHANGED <<rate, running, wrap_mode, window, clamp_dt,
                   dir_sign, instant_cues, range_cues, range_state>>
    /\ Ghosts("seek", time, t, <<>>)
    /\ scenario' = ScenarioOff

SetWindow(a, b) ==
    /\ window' = TimeWindow(a, b)
    /\ SeekTo(time, wrap_mode, window')
    /\ UNCHANGED <<rate, running, wrap_mode, clamp_dt,
                   dir_sign, instant_cues, range_cues, range_state>>
    /\ Ghosts("set_window", time, time, <<>>)
    /\ scenario' = ScenarioOff

SetWrap(mode) ==
    /\ wrap_mode' = mode
    /\ SeekTo(time, wrap_mode', window)
    /\ UNCHANGED <<rate, running, window, clamp_dt,
                   dir_sign, instant_cues, range_cues, range_state>>
    /\ Ghosts("set_wrap", time, time, <<>>)
    /\ scenario' = ScenarioOff

On(t) ==
    /\ Len(instant_cues) + Len(range_cues) < MaxCues
    /\ instant_cues' = Append(instant_cues, t)
    /\ UNCHANGED <<time, prev_time, rate, running, wrap_mode, window,
                   clamp_dt, dir_sign, range_cues, range_state>>
    /\ last' = Record("on", time, time, <<>>)
    /\ open' = open
    /\ scenario' = IF scenario.stage = 0 /\ t = TicksPerSecond
                   THEN [stage |-> 1, fired |-> 0] ELSE ScenarioOff

OnRange(t0, t1) ==
    /\ Len(instant_cues) + Len(range_cues) < MaxCues
    /\ LET key == <<t0, t1, Len(range_cues)>>
       IN  /\ range_cues' = Append(range_cues, <<t0, t1>>)
           /\ range_state' = StateSet(range_state, key, FALSE)
    /\ UNCHANGED <<time, prev_time, rate, running, wrap_mode, window,
                   clamp_dt, dir_sign, instant_cues>>
    /\ last' = Record("on_range", time, time, <<>>)
    /\ open' = Append(open, 0)
    /\ scenario' = ScenarioOff

ClearCues ==
    /\ instant_cues' = <<>>
    /\ range_cues' = <<>>
    /\ range_state' = <<>>
    /\ UNCHANGED <<time, prev_time, rate, running, wrap_mode, window,
                   clamp_dt, dir_sign>>
    /\ last' = Record("clear_cues", time, time, <<>>)
    /\ open' = <<>>
    /\ scenario' = ScenarioOff

(* _step without the running check *)
StepNeverSkips(r) == FALSE

(* the early return of _step: nothing happens while paused *)
StepSkips(r) == ~r

(* the real delta taken as it comes, and capped from the wrong side *)
CappedDtUncapped(dt_real, cdt) == dt_real
CappedDtFloor(dt_real, cdt) == IF dt_real <= cdt THEN cdt ELSE dt_real

(* the capped real delta of _step *)
CappedDt(dt_real, cdt) == IF dt_real <= cdt THEN dt_real ELSE cdt

(* prev_time taken after the move *)
PrevAfterStepIsNew(old, new) == new

(* self._prev_time = old in _step *)
PrevAfterStep(old, new) == old

(* the direction flip of _step *)
NextDirSign(bounced, mode, ds) ==
    IF bounced /\ mode = "pingpong" THEN ds * (-1) ELSE ds

(* Timebase._step, the per-frame advance *)
Step(dt_real) ==
    IF StepSkips(running)
    THEN /\ UNCHANGED prog
         /\ Ghosts("advance", time, time, <<>>)
         /\ scenario' = ScenarioOff
    ELSE LET dt == CappedDt(dt_real, clamp_dt)
             eff_rate == rate * (IF wrap_mode = "pingpong" THEN dir_sign ELSE 1)
             old == time
             proposed == old + eff_rate * dt
             wb == WrapWithBounce(old, proposed, wrap_mode, window)
             new == wb[1]
             bounced == wb[2]
             fc == FireCues(old, new, instant_cues, range_cues, range_state)
         IN  /\ (window.t_max = Inf) => (new <= MaxTime)
             /\ dir_sign' = NextDirSign(bounced, wrap_mode, dir_sign)
             /\ prev_time' = PrevAfterStep(old, new)
             /\ time' = new
             /\ range_state' = fc.state
             /\ UNCHANGED <<rate, running, wrap_mode, window, clamp_dt,
                            instant_cues, range_cues>>
             /\ Ghosts("advance", old, proposed, fc.calls)
             /\ scenario' = IF scenario.stage \in 1..3
                               /\ dt_real = TicksPerSecond \div 2
                            THEN [stage |-> scenario.stage + 1,
                                  fired |-> scenario.fired
                                            + NumCalls(fc.calls, "instant", 1)]
                            ELSE ScenarioOff

(* ---------------- the general specification ---------------- *)
T0s == {0, 5}
Rates == {0, 1}
Windows == {TimeWindow(0, 4), TimeWindow(0, Inf), TimeWindow(1, 1),
            TimeWindow(2, 0)}
ClampDts == {2}
DtReals == {0, 1, 3}
SeekTargets == {1, 4, 5}
CueTimes == {0, 2}
Ranges == {<<3, 2>>}

Init ==
    /\ \E t0 \in T0s, r \in Rates, wrap \in WrapModes, w \in Windows,
          cdt \in ClampDts : Construct(t0, r, wrap, w, cdt)
    /\ scenario = ScenarioOff

Next ==
    \/ \E dt_real \in DtReals : Step(dt_real)
    \/ Play
    \/ Pause
    \/ Toggle
    \/ \E r \in Rates : SetRate(r)
    \/ \E s \in Rates : Speed(s)
    \/ Reverse
    \/ Forward
    \/ \E t \in SeekTargets : Seek(t)
    \/ \E w \in Windows : SetWindow(w.t_min, w.t_max)
    \/ \E mode \in WrapModes : SetWrap(mode)
    \/ \E t \in CueTimes : On(t)
    \/ \E rg \in Ranges : OnRange(rg[1], rg[2])
    \/ ClearCues

Spec == Init /\ [][Next]_vars

(* ---------------- the documented demo clock ---------------- *)
(* Timebase(t0=0, rate=1, wrap="pingpong", window=TimeWindow(0, 2)), with
   the default clamp_dt = 1/30 or with clamp_dt = 0.5 *)
DemoWindow == TimeWindow(0, 2 * TicksPerSecond)
DemoClampDts == {DefaultClampDt, TicksPerSecond \div 2}
DemoDtReals == {0, 1, TicksPerSecond \div 2}
DemoRates == {1}
DemoSeekTargets == {18, 2 * TicksPerSecond}
DemoCueTimes == {TicksPerSecond}
DemoRanges == {<<TicksPerSecond, 2 * TicksPerSecond>>}

InitDemo ==
    /\ \E cdt \in DemoClampDts : Construct(0, 1, "pingpong", DemoWindow, cdt)
    /\ scenario = [stage |-> 0, fired |-> 0]

NextDemo ==
    \/ \E dt_real \in DemoDtReals : Step(dt_real)
    \/ Play
    \/ Pause
    \/ Toggle
    \/ \E r \in DemoRates : SetRate(r)
    \/ \E s \in DemoRates : Speed(s)
    \/ Reverse
    \/ Forward
    \/ \E t \in DemoSeekTargets : Seek(t)
    \/ SetWindow(DemoWindow.t_min, DemoWindow.t_max)
    \/ \E mode \in {"pingpong", "clamp"} : SetWrap(mode)
    \/ \E t \in DemoCueTimes : On(t)
    \/ \E rg \in DemoRanges : OnRange(rg[1], rg[2])
    \/ ClearCues

SpecDemo == InitDemo /\ [][NextDemo]_vars

(* ======================= properties ======================= *)
SeekOps == {"seek", "set_window", "set_wrap"}
RanAdvance == last.op = "advance" /\ running
Called(kind, i) == NumCalls(last.calls, kind, i) > 0
InRange(t, i) == between(t, range_cues[i][1], range_cues[i][2])
InWindow(t) == window.t_min <= t /\ t <= window.t_max

(* the times model time passes through in one advance: every point of the
   unwrapped segment old..proposed, folded into the window by the policy *)
Path(old, proposed, mode, w) ==
    {Wrap(p, mode, w) : p \in pymin(old, proposed)..pymax(old, proposed)}

(* C1: a running advance that starts inside a finite window and in which
   model time moves invokes every instant cue whose trigger time lies on
   the path model time travels in that call. *)
C1_NoCueSkipped ==
    LET path == Path(last.old, last.proposed, wrap_mode, window)
    IN  (/\ RanAdvance
         /\ finite(window)
         /\ InWindow(last.old)
         /\ Cardinality(path) > 1) =>
            \A i \in 1..Len(instant_cues) :
                instant_cues[i] \in path => Called("instant", i)

(* C2 as stated: with the default step cap the three calls advance(0.5) of
   the demo move time 0 -> 0.5 -> 1.0 -> 1.5 and the cue fires exactly
   once. *)
C2_DemoFiresOnce ==
    (clamp_dt = DefaultClampDt) =>
        /\ scenario.stage = 2 => time = TicksPerSecond \div 2
        /\ scenario.stage = 3 => time = TicksPerSecond
        /\ scenario.stage = 4 =>
               time = 3 * (TicksPerSecond \div 2) /\ scenario.fired = 1

(* C2 amended: with the default step cap every advance(0.5) of the demo is
   capped to clamp_dt = 1/30, so time moves 0 -> 1/30 -> 2/30 -> 3/30 and
   the cue at 1.0 is not invoked. *)
C2_DemoCapped ==
    (clamp_dt = DefaultClampDt /\ scenario.stage \in 2..4) =>
        /\ time = (scenario.stage - 1) * DefaultClampDt
        /\ prev_time = (scenario.stage - 2) * DefaultClampDt
        /\ scenario.fired = 0
        /\ last.calls = <<>>

C2_Witness ==
    scenario.stage = 4 /\ clamp_dt = DefaultClampDt /\ Len(instant_cues) = 1

(* with clamp_dt = 0.5 the demo does move 0 -> 0.5 -> 1.0 -> 1.5, and the
   closed segment test fires the cue on both calls that touch 1.0 *)
DemoUncappedFiresTwice ==
    (clamp_dt = TicksPerSecond \div 2 /\ scenario.stage = 4) =>
        time = 3 * (TicksPerSecond \div 2) /\ scenario.fired = 2

(* C3: model time always lies inside the current window. *)
C3_Containment == window.t_min <= time /\ time <= window.t_max

(* C4: seek, set_window and set_wrap invoke no cue callback, leave every
   range cue's inside flag alone, and end with prev_time equal to time. *)
C4_SeekFiresNoCue ==
    [][(last'.op \in SeekOps) =>
          /\ last'.calls = <<>>
          /\ range_state' = range_state
          /\ open' = open
          /\ prev_time' = time']_vars

C4_Witness ==
    /\ last.op = "seek"
    /\ \E i \in 1..Len(instant_cues) :
          (last.old < instant_cues[i] /\ instant_cues[i] < time)
          \/ (time < instant_cues[i] /\ instant_cues[i] < last.old)
    /\ \E i \in 1..Len(range_cues) : InRange(last.old, i) # InRange(time, i)

(* C5 as stated: a running advance changes model time by at most
   |rate| * clamp_dt, in every wrap mode (here already for the advances
   that start inside the window). *)
C5_StepBound ==
    (RanAdvance /\ InWindow(last.old)) =>
        Abs(time - last.old) <= Abs(rate) * clamp_dt

(* C5 amended: the unwrapped step is at most |rate| * clamp_dt in every
   mode, and under Clamp and PingPong the new time is within that bound of
   wrap(old time), which is the old time itself when it lies in the
   window. *)
C5_StepBoundAmended ==
    RanAdvance =>
        /\ Abs(last.proposed - last.old) <= Abs(rate) * clamp_dt
        /\ wrap_mode \in {"clamp", "pingpong"} =>
              Abs(time - Wrap(last.old, wrap_mode, window))
                  <= Abs(rate) * clamp_dt

C5_Witness ==
    /\ RanAdvance
    /\ wrap_mode = "pingpong"
    /\ finite(window)
    /\ InWindow(last.old)
    /\ last.old < window.t_max
    /\ last.proposed > window.t_max
    /\ Abs(last.proposed - last.old) = Abs(rate) * clamp_dt
    /\ time = 2 * window.t_max - last.proposed

(* x lies strictly between u and v *)
StrictlyBetween(x, u, v) == (u < x /\ x < v) \/ (v < x /\ x < u)

(* the demo clock ran an advance that brought time up to t_max = 2: the
   unwrapped step started below it and landed on it or went past it *)
ReachedTop ==
    /\ RanAdvance
    /\ wrap_mode = "pingpong"
    /\ window = DemoWindow
    /\ rate = 1
    /\ last.old < window.t_max
    /\ last.proposed >= window.t_max

(* C6: on the demo clock (PingPong, window [0,2], rate 1) the advance that
   brings time up to t = 2 leaves dir_sign = -1, the advance right after it
   with dt > 0 strictly decreases time, and dir_sign flips only in an
   advance that lands on a boundary or whose step crosses one. *)
C6_FlipAtBounce ==
    [][/\ ReachedTop' => dir_sign' = -1
       /\ (ReachedTop /\ last'.op = "advance" /\ last'.proposed # last'.old)
              => time' < time
       /\ (dir_sign' # dir_sign) =>
              /\ last'.op = "advance" /\ running /\ wrap_mode = "pingpong"
              /\ \/ time' \in {window.t_min, window.t_max}
                 \/ StrictlyBetween(window.t_min, time, last'.proposed)
                 \/ StrictlyBetween(window.t_max, time, last'.proposed)]_vars

C6_Witness ==
    /\ ReachedTop
    /\ last.proposed > window.t_max
    /\ time < window.t_max
    /\ dir_sign = -1

(* C7 as stated: on_enter fires in exactly the advances that end inside the
   range after time was outside it, on_exit in exactly those that end
   outside after time was inside, nothing fires while time stays on one
   side, and enters minus exits is always 0 or 1. *)
C7_RangePairing ==
    [][/\ \A i \in 1..Len(open') : open'[i] \in {0, 1}
       /\ (last'.op = "advance" /\ running) =>
             \A i \in 1..Len(range_cues) :
                /\ NumCalls(last'.calls, "enter", i)
                     = (IF InRange(time', i) /\ ~InRange(time, i) THEN 1 ELSE 0)
                /\ NumCalls(last'.calls, "exit", i)
                     = (IF ~InRange(time', i) /\ InRange(time, i) THEN 1 ELSE 0)
      ]_vars

(* the inside flag of range cue i *)
Inside(rs, i) == StateGet(rs, <<range_cues[i][1], range_cues[i][2], i - 1>>)

(* C7 amended: enters minus exits is always 0 or 1; a running advance fires
   on_enter once exactly when it ends inside the range while the cue's
   inside flag is false, on_exit once exactly when it ends outside while the
   flag is true, and nothing otherwise; no other operation fires either. *)
C7_RangePairingByFlag ==
    [][/\ \A i \in 1..Len(open') : open'[i] \in {0, 1}
       /\ \A i \in 1..Len(range_cues) :
             LET ran == last'.op = "advance" /\ running
             IN  /\ NumCalls(last'.calls, "enter", i)
                      = (IF ran /\ InRange(time', i) /\ ~Inside(range_state, i)
                         THEN 1 ELSE 0)
                 /\ NumCalls(last'.calls, "exit", i)
                      = (IF ran /\ ~InRange(time', i) /\ Inside(range_state, i)
                         THEN 1 ELSE 0)
      ]_vars

(* on_enter fired in an advance during which time stayed inside the range *)
C7_Witness ==
    /\ RanAdvance
    /\ \E i \in 1..Len(range_cues) :
          /\ Called("enter", i)
          /\ InRange(last.old, i)
          /\ InRange(time, i)
          /\ open[i] = 1

(* C8 as stated: after a running advance and after a seek (also the one in
   set_window and set_wrap) prev_time is the time before the operation. *)
C8_PrevIsTimeBefore ==
    [][(last'.op \in SeekOps \/ (last'.op = "advance" /\ running))
          => prev_time' = time]_vars

(* C8 amended: after a running advance prev_time is the time before the
   advance; after seek, set_window and set_wrap it is the new time. *)
C8_PrevAfterAdvanceAndSeek ==
    [][/\ (last'.op = "advance" /\ running) => prev_time' = time
       /\ (last'.op \in SeekOps) => prev_time' = time']_vars

C8_Witness ==
    /\ RanAdvance
    /\ InWindow(last.old)
    /\ time # last.old
    /\ prev_time = last.old
    /\ wrap_mode = "loop"
    /\ finite(window)
    /\ last.proposed > window.t_max

C8_SeekWitness == last.op = "seek" /\ time # last.old /\ prev_time = time

(* C9: with Loop or PingPong and a zero-length or inverted window, an
   operation that applies the boundary policy reports an error and leaves
   model time unchanged. *)
C9_FailFast ==
    (/\ wrap_mode \in {"loop", "pingpong"}
     /\ window.t_max <= window.t_min
     /\ (last.op \in SeekOps \/ RanAdvance))
        => (last.raised /\ time = last.old)

(* C10: while paused, advance changes no field of the clock and invokes no
   callback, and only play, pause and toggle change the running flag. *)
C10_PausedAdvanceNoOp ==
    [][/\ (last'.op = "advance" /\ ~running) =>
             /\ UNCHANGED prog
             /\ last'.calls = <<>>
             /\ open' = open
       /\ (~running /\ running') => last'.op \in {"play", "toggle"}]_vars

C10_Witness ==
    /\ last.op = "advance"
    /\ ~running
    /\ rate # 0
    /\ prev_time # time
    /\ \E i \in 1..Len(range_cues) : InRange(time, i) # Inside(range_state, i)

(* ---------------- the boundary policy on its own ---------------- *)
(* a clock that is only relocated: seek, set_window and set_wrap apply
   _wrap to every target under every window and mode *)
WrapWindows == {TimeWindow(0, 4), TimeWindow(1, 3), TimeWindow(-2, 1),
                TimeWindow(0, Inf), TimeWindow(1, 1), TimeWindow(2, 0)}
WrapInputs == (0 - 2 * MaxTime)..(2 * MaxTime)
WrapSteps == (0 - MaxTime)..MaxTime

InitWrap ==
    /\ \E w \in WrapWindows, wrap \in WrapModes :
          Construct(0, 1, wrap, w, DefaultClampDt)
    /\ scenario = ScenarioOff

NextWrap ==
    \/ \E t \in WrapInputs : Seek(t)
    \/ \E w \in WrapWindows : SetWindow(w.t_min, w.t_max)
    \/ \E mode \in WrapModes : SetWrap(mode)

SpecWrap == InitWrap /\ [][NextWrap]_vars

(* wrap(t) under the current mode and window *)
wrap(t) == Wrap(t, wrap_mode, window)

(* C11 as stated: under Clamp, for every t and every window, wrap(t) lies
   in [t_min, t_max] and wrap(wrap(t)) = wrap(t). *)
C11_ClampInRangeIdempotent ==
    (wrap_mode = "clamp") =>
        /\ \A t \in WrapInputs : InWindow(wrap(t)) /\ wrap(wrap(t)) = wrap(t)
        /\ (last.op = "seek") => (InWindow(time) /\ wrap(time) = time)

(* C11 amended: under Clamp wrap is idempotent for every window, and
   wrap(t) lies in [t_min, t_max] for every window with t_min <= t_max; for
   an inverted window wrap(t) is t_min, which lies above t_max. *)
C11_ClampAmended ==
    (wrap_mode = "clamp") =>
        /\ \A t \in WrapInputs :
              /\ wrap(wrap(t)) = wrap(t)
              /\ (window.t_min <= window.t_max) => InWindow(wrap(t))
              /\ (window.t_min > window.t_max) => wrap(t) = window.t_min
        /\ (last.op = "seek") =>
              /\ time = wrap(last.proposed)
              /\ wrap(time) = time
              /\ (window.t_min <= window.t_max) => InWindow(time)

C11_Witness ==
    /\ wrap_mode = "clamp"
    /\ last.op = "seek"
    /\ window.t_min < window.t_max
    /\ last.proposed < window.t_min
    /\ time = window.t_min

(* C12: under PingPong with a finite window [a, b], for every t (also
   below a) wrap has period 2 * (b - a), stays in [a, b], moves by at most
   |d| when t moves by d, and wrap(a) = a, wrap(b) = b. *)
C12_PingPongTriangle ==
    (wrap_mode = "pingpong" /\ finite(window)) =>
        LET a == window.t_min
            b == window.t_max
            length == b - a
        IN  /\ wrap(a) = a
            /\ wrap(a + length) = b
            /\ \A t \in WrapInputs :
                  /\ wrap(t + 2 * length) = wrap(t)
                  /\ a <= wrap(t) /\ wrap(t) <= b
                  /\ \A d \in WrapSteps : Abs(wrap(t + d) - wrap(t)) <= Abs(d)
            /\ (last.op = "seek") => time = wrap(last.proposed)

C12_Witness ==
    /\ wrap_mode = "pingpong"
    /\ finite(window)
    /\ window.t_min # 0
    /\ last.op = "seek"
    /\ last.proposed < window.t_min
    /\ time = 2 * window.t_min - last.proposed
    /\ time < window.t_max

(* two different range cues registered with the same (t0, t1) *)
Duplicates(i, j) ==
    /\ i \in 1..Len(range_cues)
    /\ j \in 1..Len(range_cues)
    /\ i # j
    /\ range_cues[i] = range_cues[j]

(* C13: range cues with identical (t0, t1) each keep their own inside flag:
   there is one flag per registered cue, registering a cue leaves the flags
   of the others alone and starts its own at false, and in a running
   advance each duplicate fires on_enter / on_exit by its own flag. *)
C13_DuplicatesIndependent ==
    [][/\ Cardinality(DOMAIN range_state') = Len(range_cues')
       /\ (last'.op = "on_range") =>
             /\ \A i \in 1..Len(range_cues) :
                   Inside(range_state', i) = Inside(range_state, i)
             /\ LET n == Len(range_cues')
                IN  ~StateGet(range_state',
                              <<range_cues'[n][1], range_cues'[n][2], n - 1>>)
       /\ (last'.op = "advance" /\ running) =>
             \A i, j \in 1..Len(range_cues) :
                Duplicates(i, j) =>
                   /\ NumCalls(last'.calls, "enter", i)
                        = (IF InRange(time', i) /\ ~Inside(range_state, i)
                           THEN 1 ELSE 0)
                   /\ NumCalls(last'.calls, "exit", i)
                        = (IF ~InRange(time', i) /\ Inside(range_state, i)
                           THEN 1 ELSE 0)
                   /\ Inside(range_state', i) = InRange(time', i)
       /\ (last'.op = "clear_cues") => range_state' = <<>> /\ range_cues' = <<>>
      ]_vars

(* of two duplicates only the later registered one fired on_enter *)
C13_Witness ==
    /\ RanAdvance
    /\ \E i, j \in 1..Len(range_cues) :
          /\ Duplicates(i, j)
          /\ Called("enter", j)
          /\ ~Called("enter", i)
          /\ Inside(range_state, i)
          /\ Inside(range_state, j)

(* an advance that starts and ends strictly inside the window *)
StaysInside(old, proposed) ==
    /\ window.t_min < old /\ old < window.t_max
    /\ window.t_min < proposed /\ proposed < window.t_max

(* C14: after reverse() the next running advance with dt > 0 and nonzero
   rate that neither reaches nor crosses a window boundary strictly
   decreases time, and after forward() it strictly increases time. *)
C14_ReverseRunsBackwards ==
    [][(/\ last.op \in {"reverse", "forward"}
        /\ last'.op = "advance"
        /\ running
        /\ rate # 0
        /\ last'.proposed # last'.old
        /\ StaysInside(last'.old, last'.proposed))
        => /\ (last.op = "reverse") => time' < time
           /\ (last.op = "forward") => time' > time]_vars

(* the instant-cue calls among the recorded callback invocations *)
InstantCalls(calls) == SelectSeq(calls, LAMBDA c : c.kind = "instant")

(* C15: instant-cue firing does not depend on direction: after a running
   advance over the segment from prev_time = u to time = v (u # v) the cues
   invoked are those the segment from v to u invokes, namely the cues with
   min(u, v) <= tc <= max(u, v), and each callback receives its tc. *)
C15_DirectionIndependent ==
    (RanAdvance /\ prev_time # time) =>
        LET fwd == InstantLoop(1, instant_cues, prev_time, time)
            bwd == InstantLoop(1, instant_cues, time, prev_time)
        IN  /\ InstantCalls(last.calls) = fwd
            /\ fwd = bwd
            /\ \A i \in 1..Len(instant_cues) :
                  Called("instant", i) <=>
                     /\ pymin(prev_time, time) <= instant_cues[i]
                     /\ instant_cues[i] <= pymax(prev_time, time)
            /\ \A k \in 1..Len(fwd) : fwd[k].arg = instant_cues[fwd[k].idx]

(* a backward advance fired a cue lying strictly inside its segment *)
C15_Witness ==
    /\ RanAdvance
    /\ time < prev_time
    /\ \E i \in 1..Len(instant_cues) :
          /\ StrictlyBetween(instant_cues[i], time, prev_time)
          /\ Called("instant", i)

ControlOps == {"play", "pause", "toggle", "set_rate", "speed", "reverse",
               "forward"}

(* C16: play, pause, toggle, set_rate/speed, reverse and forward leave time,
   prev_time, dir_sign, window, wrap_mode, the cue registries and the range
   flags unchanged and fire no cue; set_rate(r) sets rate to r, reverse sets
   it to -abs(rate), forward to abs(rate); play, pause, reverse and forward
   bring the clock to a state they leave as it is, and toggle negates
   running, so that two toggles restore it. *)
C16_ControlsDoNotMoveTime ==
    [][/\ (last'.op \in ControlOps) =>
             /\ UNCHANGED <<time, prev_time, dir_sign, window, wrap_mode,
                            clamp_dt, instant_cues, range_cues, range_state>>
             /\ last'.calls = <<>>
       /\ (last'.op \in {"play", "pause", "toggle"}) => rate' = rate
       /\ (last'.op \in {"set_rate", "speed", "reverse", "forward"}) =>
             running' = running
       /\ (last'.op = "play") => running'
       /\ (last'.op = "pause") => ~running'
       /\ (last'.op = "toggle") =>
             /\ running' = ~running
             /\ (last.op = "toggle") => (~running') = running
       /\ \A r \in Rates : SetRate(r) => rate' = r
       /\ \A s \in Rates : Speed(s) => rate' = s
       /\ (last'.op = "reverse") =>
             /\ rate' = 0 - Abs(rate)
             /\ 0 - Abs(rate') = rate'
       /\ (last'.op = "forward") =>
             /\ rate' = Abs(rate)
             /\ Abs(rate') = rate'
      ]_vars

(* reverse() was called on the returning leg of a ping-pong, between the
   two ends of a step, and left a negative rate *)
C16_Witness ==
    /\ last.op = "reverse"
    /\ rate < 0
    /\ dir_sign = -1
    /\ prev_time # time

(* C17: under PingPong with a finite window and rate > 0, a running advance
   that starts inside the window, changes time and leaves dir_sign
   unchanged moves time in the direction of dir_sign. *)
C17_DirSignConsistent ==
    [][(/\ last'.op = "advance"
        /\ running
        /\ wrap_mode = "pingpong"
        /\ finite(window)
        /\ rate > 0
        /\ InWindow(time)
        /\ time' # time
        /\ dir_sign' = dir_sign)
        => /\ (dir_sign = 1) => time' > time
           /\ (dir_sign = -1) => time' < time]_vars

(* C18: an advance that starts inside the window invokes an instant cue
   only if its trigger time lies on the path model time travelled in that
   call, the wrapped-around or reflected path included. *)
C18_NoSpuriousCue ==
    (RanAdvance /\ InWindow(last.old)) =>
        \A i \in 1..Len(instant_cues) :
           Called("instant", i) =>
              instant_cues[i] \in Path(last.old, last.proposed, wrap_mode, window)

(* C19: immediately after every running advance each registered range
   cue's inside flag equals whether the current time lies in the closed
   interval [min(t0, t1), max(t0, t1)], whatever seek, window or wrap
   change or registration came before. *)
C19_FlagTracksMembership ==
    RanAdvance =>
        \A i \in 1..Len(range_cues) :
           Inside(range_state, i) =
              (/\ pymin(range_cues[i][1], range_cues[i][2]) <= time
               /\ time <= pymax(range_cues[i][1], range_cues[i][2]))

(* an advance that did not move the clock fired on_enter for a cue
   registered while time was already inside its range *)
C19_Witness ==
    /\ RanAdvance
    /\ prev_time = time
    /\ last.proposed = last.old
    /\ \E i \in 1..Len(range_cues) :
          /\ Called("enter", i)
          /\ Inside(range_state, i)

(* ---------------- a clamped clock that is only advanced ---------------- *)
(* the updater calls advance with dt_real > 0 frame after frame; cues may be
   registered meanwhile, no control operation is called *)
RunWindows == {TimeWindow(0, 4), TimeWindow(1, 3), TimeWindow(0, MaxTime)}
RunT0s == 0..MaxTime
RunRates == {-2, -1, 1, 2}
RunClampDts == {1, 2}
RunDtReals == {1, 3}
RunCueTimes == {0, 1, 3, 4}

InitRun ==
    /\ \E t0 \in RunT0s, r \in RunRates, w \in RunWindows,
          cdt \in RunClampDts : Construct(t0, r, "clamp", w, cdt)
    /\ scenario = ScenarioOff

Advance == \E dt_real \in RunDtReals : Step(dt_real)

NextRun ==
    \/ Advance
    \/ \E t \in RunCueTimes : On(t)

SpecRun == InitRun /\ [][NextRun]_vars /\ WF_vars(Advance)

(* C20: under Clamp with a finite window, running and rate > 0, repeated
   advances with dt_real > 0 bring time to t_max, where it stays on every
   later advance, and an advance that starts at t_max fires no instant cue;
   with rate < 0 the same holds at t_min. *)
C20_ClampStopsAtEnd ==
    /\ (rate > 0) => <>[](time = window.t_max)
    /\ (rate < 0) => <>[](time = window.t_min)
    /\ [][(/\ last'.op = "advance"
           /\ \/ rate > 0 /\ time = window.t_max
              \/ rate < 0 /\ time = window.t_min)
           => /\ time' = time
              /\ InstantCalls(last'.calls) = <<>>]_vars

(* an advance started and ended at t_max, where a cue is registered, and
   invoked nothing *)
C20_Witness ==
    /\ RanAdvance
    /\ wrap_mode = "clamp"
    /\ rate > 0
    /\ last.old = window.t_max
    /\ time = window.t_max
    /\ \E i \in 1..Len(instant_cues) : instant_cues[i] = window.t_max
    /\ last.calls = <<>>

====
